---- MODULE Spec2Model ----
(***************************************************************************)
(* Model of backend/main.py: the upload-video, add-comment and             *)
(* get-comments handlers, the sentiment adapter and the shared SQL         *)
(* connection handle.  Object storage, the SQL server and the classifier   *)
(* are external; each call to them either returns or raises, chosen        *)
(* nondeterministically.                                                   *)
(*                                                                         *)
(* Python values are pairs <<tag, payload>>: <<"none", _>> is None / SQL   *)
(* NULL, <<"str", s>> a string, <<"int", n>> and <<"float", n>> numbers.   *)
(* File names are sequences of one-character strings.                      *)
(*                                                                         *)
(* Specifications:                                                         *)
(*   Spec         add-comment and get-comments, one request at a time      *)
(*   SpecConc     the same handlers on two threads, interleaved at their   *)
(*                blocking calls, sharing conn and cursor                   *)
(*   SpecNames    one upload-video of every enumerated file name           *)
(*   SpecStorage  sequences of upload-video of colliding names             *)
(***************************************************************************)
EXTENDS Integers, Sequences, FiniteSets, TLC

\* ------------------------------------------------------------------ bounds

\* longest file name enumerated for upload-video
MaxNameLen == 5
\* uploads per behaviour in the storage specification
MaxUploads == 3
\* add-comment / get-comments requests per behaviour
MaxRequests == 2
\* largest value of the SQL server's clock (GETDATE())
MaxClock == 3

\* ------------------------------------------------------- program constants

\* timedelta(hours=24): lifetime of the signed read URL
SasHours == 24

\* ------------------------------------------------------------ Python values

None == <<"none", 0>>
NoneStr == <<"none", "">>
PyStr(s) == <<"str", s>>
PyInt(n) == <<"int", n>>
PyFloat(n) == <<"float", n>>

IsNone(x) == x[1] = "none"

\* Python truthiness: None, "", 0 and 0.0 are false
Truthy(x) ==
    CASE x[1] = "none" -> FALSE
      [] x[1] = "str" -> x[2] # ""
      [] OTHER -> x[2] # 0

\* x or d
PyOr(x, d) == IF Truthy(x) THEN x ELSE d

\* float(x) for a number x
float(x) == <<"float", x[2]>>

\* ------------------------------------------------------------- file names

Alphabet == {"a", ".", "m", "M", "p", "4"}

RECURSIVE SeqsUpTo(_, _)
SeqsUpTo(S, n) ==
    IF n = 0 THEN {<<>>}
    ELSE LET shorter == SeqsUpTo(S, n - 1)
         IN  shorter \cup {Append(s, c) : s \in {t \in shorter : Len(t) = n - 1}, c \in S}

Filenames == SeqsUpTo(Alphabet, MaxNameLen)

\* names of which three collide after normalization (a.ma, a.ap and a give a.mp4)
\* and one does not (a.Mp4 is kept)
UploadNames ==
    { <<"a", ".", "m", "a">>, <<"a", ".", "a", "p">>, <<"a", ".", "M", "p", "4">>, <<"a">> }

Payloads == {"d1", "d2"}

\* str.lower() on one character
LowerChar(c) == IF c = "M" THEN "m" ELSE c

\* str.lower()
lower(s) == [i \in 1..Len(s) |-> LowerChar(s[i])]

\* str.endswith(suffix)
endswith(s, suffix) ==
    /\ Len(s) >= Len(suffix)
    /\ SubSeq(s, Len(s) - Len(suffix) + 1, Len(s)) = suffix

Mp4Suffix == <<".", "m", "p", "4">>

\* s.rsplit('.', 1)[0]: the text before the last '.', or s when it has none
rsplit0(s) ==
    LET dots == {i \in 1..Len(s) : s[i] = "."}
    IN  IF dots = {} THEN s
        ELSE LET last == CHOOSE i \in dots : \A j \in dots : j <= i
             IN  SubSeq(s, 1, last - 1)

\* the normalization ignoring the suffix's letter case is dropped
NormalizeCaseSensitive(filename) ==
    IF ~endswith(filename, Mp4Suffix)
    THEN rsplit0(filename) \o Mp4Suffix
    ELSE filename

\* lines 97-99 of upload_video: the stored name
NormalizeName(filename) ==
    IF ~endswith(lower(filename), Mp4Suffix)
    THEN rsplit0(filename) \o Mp4Suffix
    ELSE filename

\* ------------------------------------------------------------------ state

VARIABLES
    storage,      \* object storage: the set of blobs [name, data, content_type, disposition]
    storageBefore,\* history: object storage before the last upload-video request
    uploads,      \* history: the upload-video requests served, oldest first
    upResp,       \* the last upload-video response
    conn,         \* global conn: "None" or "conn"
    cursor,       \* global cursor: "None" or "cursor"
    table,        \* committed rows of Comments
    pending,      \* rows inserted in the connection's open transaction, uncommitted
    results,      \* the shared cursor's result set: [open, rows]
    clock,        \* the SQL server's clock
    reconnects,   \* history: calls of create_db_connection by requests
    nreq,         \* comment requests started so far
    outcomes,     \* history: add-comment requests finished, [rid, reported]
    resp,         \* the last comment-endpoint response
    last,         \* history: what the last finished comment request did
    threads       \* per worker thread: position and locals of the request it serves

vars == <<storage, storageBefore, uploads, upResp, conn, cursor, table, pending, results, clock,
          reconnects, nreq, outcomes, resp, last, threads>>

uploadVars == <<storage, storageBefore, uploads, upResp>>
dbVars == <<conn, cursor, table, pending, results, clock, reconnects, nreq, outcomes, resp, last, threads>>

\* ----------------------------------------------------------- upload-video

NoneName == <<"none", <<>>>>
NoURL == [blob |-> <<>>, signed |-> <<>>, hours |-> 0]

Blob(name, data) ==
    [name |-> name, data |-> data, content_type |-> "video/mp4", disposition |-> "inline"]

\* an upload that keeps the object already stored under the name
UploadBlobKeepExisting(store, name, data) ==
    IF \E b \in store : b.name = name THEN store ELSE store \cup {Blob(name, data)}

\* blob_client.upload_blob(data, overwrite=True, content_settings=...)
UploadBlob(store, name, data) ==
    {b \in store : b.name # name} \cup {Blob(name, data)}

\* generate_blob_sas(..., blob_name=filename, permission=read, expiry=now + 24 h)
\* joined to blob_client.url
SasUrl(blobClientName, blobName) ==
    [blob |-> blobClientName, signed |-> blobName, hours |-> SasHours]

\* POST /upload-video/.  file is file.filename (a string or None); blobRaises and
\* sasRaises say whether upload_blob and generate_blob_sas raise.  Any exception
\* becomes HTTPException(500).
upload_video(file, data, blobRaises, sasRaises) ==
    LET noName == IsNone(file)
        filename == IF noName THEN <<>> ELSE NormalizeName(file[2])
        wrote == ~noName /\ ~blobRaises
        ok == wrote /\ ~sasRaises
    IN  /\ storage' = IF wrote THEN UploadBlob(storage, filename, data) ELSE storage
        /\ storageBefore' = storage
        /\ upResp' = IF ok
                     THEN [status |-> 200, video_url |-> SasUrl(filename, filename),
                           video_name |-> filename, detail |-> ""]
                     ELSE [status |-> 500, video_url |-> NoURL,
                           video_name |-> <<>>, detail |-> "error"]
        /\ uploads' = Append(uploads, [file |-> file, data |-> data,
                                       status |-> upResp'.status,
                                       video_name |-> upResp'.video_name])
        /\ UNCHANGED dbVars

InitUpload ==
    /\ storage = {}
    /\ storageBefore = {}
    /\ uploads = <<>>
    /\ upResp = [status |-> 0, video_url |-> NoURL, video_name |-> <<>>, detail |-> ""]

\* ------------------------------------------------------ sentiment adapter

Videos == {"v1", "v2"}
Texts == {"A"}

\* exception classes that derive from Exception
ExceptionClasses ==
    {"HttpResponseError", "IndexError", "AttributeError", "pyodbc.Error",
     "pyodbc.ProgrammingError"}

\* What text_analytics_client.analyze_sentiment([comment])[0] does: it returns a
\* document result (scores in tenths), or the call raises, or the list is empty
\* ([0] raises IndexError), or the item is an error document without .sentiment
\* (AttributeError).
Scores(s, p, n, g) == [sentiment |-> s, positive |-> p, neutral |-> n, negative |-> g]

ClassifierOutcomes ==
    { [kind |-> "ok", result |-> Scores(PyStr("positive"), PyFloat(9), PyFloat(1), PyFloat(0))],
      [kind |-> "ok", result |-> Scores(PyStr("negative"), PyFloat(0), PyFloat(2), PyFloat(8))],
      [kind |-> "HttpResponseError", result |-> Scores(NoneStr, None, None, None)],
      [kind |-> "IndexError", result |-> Scores(NoneStr, None, None, None)],
      [kind |-> "AttributeError", result |-> Scores(NoneStr, None, None, None)] }

NoClassifierCall == [kind |-> "not called", result |-> Scores(NoneStr, None, None, None)]

UnknownSentiment == Scores(PyStr("unknown"), PyInt(0), PyInt(0), PyInt(0))

\* a handler that catches only the service's own error class
analyze_sentiment_narrow_except(outcome) ==
    IF outcome.kind = "ok"
    THEN [raised |-> "", value |-> outcome.result]
    ELSE IF outcome.kind = "HttpResponseError"
         THEN [raised |-> "", value |-> UnknownSentiment]
         ELSE [raised |-> outcome.kind, value |-> outcome.result]

\* analyze_sentiment(comment): try ... except Exception
analyze_sentiment(outcome) ==
    IF outcome.kind = "ok"
    THEN [raised |-> "", value |-> outcome.result]
    ELSE IF outcome.kind \in ExceptionClasses
         THEN [raised |-> "", value |-> UnknownSentiment]
         ELSE [raised |-> outcome.kind, value |-> outcome.result]

\* ----------------------------------------------------------- comment store

Row(rid, video, text, sd, now) ==
    [rid |-> rid, video |-> video, text |-> text, sentiment |-> sd.sentiment,
     positive |-> sd.positive, neutral |-> sd.neutral, negative |-> sd.negative,
     created_at |-> now]

NoRow == Row(-1, "", "", Scores(NoneStr, None, None, None), 0)

\* Rows Comments may hold when the process starts (rid 0: not written by a
\* request of this run), some with NULL or empty columns.
PriorRows ==
    { Row(0, "v1", "L1", Scores(NoneStr, None, None, None), 0),
      Row(0, "v1", "L2", Scores(PyStr(""), PyFloat(0), None, PyFloat(3)), 1),
      Row(0, "v2", "L3", Scores(PyStr("positive"), PyFloat(9), PyFloat(1), PyFloat(0)), 1) }

\* create_db_connection(): connects says whether pyodbc.connect succeeds
create_db_connection(connects) ==
    IF connects THEN <<"conn", "cursor">> ELSE <<"None", "None">>

\* SELECT ... WHERE VideoName = ?, read inside the connection's transaction: the
\* committed rows and the connection's own uncommitted rows of the video
SelectRows(tbl, txn, video) == {r \in tbl \cup txn : r.video = video}

\* ORDER BY CreatedAt DESC: every sequence of the rows with created_at
\* non-increasing (rows of equal created_at come in any order)
RECURSIVE OrderedDesc(_)
OrderedDesc(S) ==
    IF S = {} THEN {<<>>}
    ELSE UNION { {<<r>> \o rest : rest \in OrderedDesc(S \ {r})} :
                 r \in {x \in S : \A y \in S : y.created_at <= x.created_at} }

\* a read side that passes the stored label through and defaults scores to None
RowToCommentNoDefaults(row) ==
    [text |-> row.text,
     sentiment |-> row.sentiment,
     positive |-> row.positive,
     neutral |-> row.neutral,
     negative |-> row.negative,
     created_at |-> PyStr(row.created_at)]

\* lines 174-181 of get_comments: one row to one comment
RowToComment(row) ==
    [text |-> row.text,
     sentiment |-> PyOr(row.sentiment, PyStr("neutral")),
     positive |-> float(PyOr(row.positive, PyInt(0))),
     neutral |-> float(PyOr(row.neutral, PyInt(0))),
     negative |-> float(PyOr(row.negative, PyInt(0))),
     created_at |-> PyStr(row.created_at)]

\* ---------------------------------------------------------------- responses

Response(keys, status, sentiment, error, comments) ==
    [http |-> 200, keys |-> keys, status |-> status, sentiment |-> sentiment,
     error |-> error, comments |-> comments]

NoResponse == [http |-> 0, keys |-> {}, status |-> "", sentiment |-> NoneStr,
               error |-> "", comments |-> <<>>]

\* an exception that leaves the endpoint: the framework answers 500
Escaped(e) == [http |-> 500, keys |-> {"detail"}, status |-> "", sentiment |-> NoneStr,
               error |-> "", comments |-> <<>>]

NotConnectedAdd == Response({"error"}, "", NoneStr, "SQL Database not connected.", <<>>)
NotConnectedGet ==
    Response({"comments", "error"}, "", NoneStr, "SQL Database not connected.", <<>>)

\* line 150
CommentAdded(sentiment) == Response({"status", "sentiment"}, "Comment added", sentiment, "", <<>>)

\* lines 152-153: except Exception as e: return {"error": str(e)}
AddCommentExcept(e) ==
    IF e \in ExceptionClasses THEN Response({"error"}, "", NoneStr, e, <<>>) ELSE Escaped(e)

\* line 183
CommentsFound(comments) == Response({"comments"}, "", NoneStr, "", comments)

\* lines 185-186: except Exception as e: return {"comments": [], "error": str(e)}
CommentsError(e) ==
    IF e \in ExceptionClasses
    THEN Response({"comments", "error"}, "", NoneStr, e, <<>>)
    ELSE Escaped(e)

\* ------------------------------------------------- handlers, one at a time

NoLast ==
    [kind |-> "none", rid |-> 0, video |-> "", text |-> "",
     absent |-> FALSE,            \* the handle was absent when the request began
     attempts |-> 0,              \* calls of create_db_connection
     connected |-> FALSE,         \* the handle was present after them
     snapshot |-> {},             \* the video's committed rows when the SELECT ran
     outcome |-> NoClassifierCall,\* what the classifier did
     sd |-> Scores(NoneStr, None, None, None),   \* sentiment_data
     calls |-> 0,                 \* calls on cursor / conn
     raised |-> "",               \* the store call that raised
     row |-> NoRow,               \* the row passed to INSERT
     rows |-> <<>>]               \* the rows fetchall returned

ClosedResults == [open |-> FALSE, rows |-> <<>>]
OpenResults(rows) == [open |-> TRUE, rows |-> rows]

\* the open transaction after a store call raised: the server keeps it or has
\* dropped it
AfterRaise(txn, keeps) == IF keeps THEN txn ELSE {}

\* cursor.execute("INSERT INTO Comments ..."): the row joins the connection's open
\* transaction (pyodbc connections do not autocommit)
execute_insert(txn, row) == txn \cup {row}

\* a handler that never commits
commit_missing(tbl, txn) == tbl

\* conn.commit(): the rows of the open transaction become committed
commit(tbl, txn) == tbl \cup txn

\* an except clause that lets the exception go
GetCommentsReraise(e) == Escaped(e)

\* the except clause of get_comments
GetCommentsExcept(e) == CommentsError(e)

\* POST /add-comment/ (lines 129-153).  connects: pyodbc.connect succeeds;
\* outcome: what the classifier does; raises: the store call that raises
\* ("execute", "commit" or neither); keeps: see AfterRaise; now: GETDATE().
add_comment(video_name, comment_text, connects, outcome, raises, keeps, now) ==
    LET rid == nreq + 1
        absent == cursor = "None"
        handle == IF absent THEN create_db_connection(connects) ELSE <<conn, cursor>>
        txn == IF absent THEN {} ELSE pending
        rec == [NoLast EXCEPT !.kind = "add", !.rid = rid, !.video = video_name,
                              !.text = comment_text, !.absent = absent,
                              !.attempts = IF absent THEN 1 ELSE 0,
                              !.connected = handle[2] # "None"]
    IN  /\ nreq' = rid
        /\ reconnects' = reconnects + rec.attempts
        /\ conn' = handle[1]
        /\ cursor' = handle[2]
        /\ UNCHANGED <<threads, uploadVars>>
        /\ IF handle[2] = "None"
           THEN /\ resp' = NotConnectedAdd
                /\ last' = rec
                /\ outcomes' = Append(outcomes, [rid |-> rid, reported |-> "error"])
                /\ UNCHANGED <<table, pending, results, clock>>
           ELSE LET sentiment_data == analyze_sentiment(outcome)
                    sd == sentiment_data.value
                    row == Row(rid, video_name, comment_text, sd, now)
                    rec2 == [rec EXCEPT !.outcome = outcome, !.sd = sd]
                IN  IF sentiment_data.raised # ""
                    THEN /\ resp' = AddCommentExcept(sentiment_data.raised)
                         /\ last' = rec2
                         /\ outcomes' = Append(outcomes, [rid |-> rid, reported |-> "error"])
                         /\ pending' = txn
                         /\ UNCHANGED <<table, results, clock>>
                    ELSE IF raises = "execute"
                    THEN /\ resp' = AddCommentExcept("pyodbc.Error")
                         /\ last' = [rec2 EXCEPT !.calls = 1, !.raised = "execute", !.row = row]
                         /\ outcomes' = Append(outcomes, [rid |-> rid, reported |-> "error"])
                         /\ pending' = AfterRaise(txn, keeps)
                         /\ results' = ClosedResults
                         /\ UNCHANGED <<table, clock>>
                    ELSE IF raises = "commit"
                    THEN /\ resp' = AddCommentExcept("pyodbc.Error")
                         /\ last' = [rec2 EXCEPT !.calls = 2, !.raised = "commit", !.row = row]
                         /\ outcomes' = Append(outcomes, [rid |-> rid, reported |-> "error"])
                         /\ pending' = AfterRaise(execute_insert(txn, row), keeps)
                         /\ results' = ClosedResults
                         /\ clock' = now
                         /\ UNCHANGED table
                    ELSE /\ resp' = CommentAdded(sd.sentiment)
                         /\ last' = [rec2 EXCEPT !.calls = 2, !.row = row]
                         /\ outcomes' = Append(outcomes, [rid |-> rid, reported |-> "added"])
                         /\ table' = commit(table, execute_insert(txn, row))
                         /\ pending' = {}
                         /\ results' = ClosedResults
                         /\ clock' = now

\* GET /get-comments/ (lines 156-186).  raises: "execute", "fetchall" or neither.
get_comments(video_name, connects, raises, keeps) ==
    LET rid == nreq + 1
        absent == cursor = "None"
        handle == IF absent THEN create_db_connection(connects) ELSE <<conn, cursor>>
        txn == IF absent THEN {} ELSE pending
        rec == [NoLast EXCEPT !.kind = "get", !.rid = rid, !.video = video_name,
                              !.absent = absent, !.attempts = IF absent THEN 1 ELSE 0,
                              !.connected = handle[2] # "None",
                              !.snapshot = IF handle[2] # "None"
                                           THEN SelectRows(table, {}, video_name) ELSE {}]
    IN  /\ nreq' = rid
        /\ reconnects' = reconnects + rec.attempts
        /\ conn' = handle[1]
        /\ cursor' = handle[2]
        /\ UNCHANGED <<threads, uploadVars, table, clock, outcomes>>
        /\ IF handle[2] = "None"
           THEN /\ resp' = NotConnectedGet
                /\ last' = rec
                /\ UNCHANGED <<pending, results>>
           ELSE IF raises = "execute"
           THEN /\ resp' = GetCommentsExcept("pyodbc.Error")
                /\ last' = [rec EXCEPT !.calls = 1, !.raised = "execute"]
                /\ pending' = AfterRaise(txn, keeps)
                /\ results' = ClosedResults
           ELSE IF raises = "fetchall"
           THEN /\ resp' = GetCommentsExcept("pyodbc.Error")
                /\ last' = [rec EXCEPT !.calls = 2, !.raised = "fetchall"]
                /\ pending' = AfterRaise(txn, keeps)
                /\ results' = ClosedResults
           ELSE \E rows \in OrderedDesc(SelectRows(table, txn, video_name)) :
                /\ resp' = CommentsFound([i \in 1..Len(rows) |-> RowToComment(rows[i])])
                /\ last' = [rec EXCEPT !.calls = 2, !.rows = rows]
                /\ pending' = txn
                /\ results' = OpenResults(<<>>)

\* the worker threads of the framework's pool that serve the sync endpoints
Threads == {"t1", "t2"}

Idle == [pc |-> "idle", rec |-> NoLast]

InitStore ==
    /\ \E connects \in BOOLEAN :
          /\ conn = create_db_connection(connects)[1]
          /\ cursor = create_db_connection(connects)[2]
    /\ pending = {}
    /\ results = ClosedResults
    /\ clock = 1
    /\ reconnects = 0
    /\ nreq = 0
    /\ outcomes = <<>>
    /\ resp = NoResponse
    /\ last = NoLast
    /\ threads = [t \in Threads |-> Idle]

Init ==
    /\ InitUpload
    /\ InitStore
    /\ table \in {{}, PriorRows}

\* the same with an empty Comments table
InitEmpty ==
    /\ InitUpload
    /\ InitStore
    /\ table = {}

Times == {t \in {clock, clock + 1} : t <= MaxClock}

\* pyodbc.connect is called only when the handle is absent
Connects == IF cursor = "None" THEN BOOLEAN ELSE {TRUE}

\* <<the store call that raises, whether the open transaction survives it>>
Faults(calls) == {<<"", TRUE>>} \cup (calls \X BOOLEAN)

AddComment ==
    /\ nreq < MaxRequests
    /\ \E v \in Videos, t \in Texts, connects \in Connects, outcome \in ClassifierOutcomes,
          fault \in Faults({"execute", "commit"}), now \in Times :
           add_comment(v, t, connects, outcome, fault[1], fault[2], now)

GetComments ==
    /\ nreq < MaxRequests
    /\ \E v \in Videos, connects \in Connects, fault \in Faults({"execute", "fetchall"}) :
           get_comments(v, connects, fault[1], fault[2])

Next == AddComment \/ GetComments

Spec == Init /\ [][Next]_vars

\* ------------------------------------------- handlers, run concurrently
\* The sync endpoints run on a pool of threads and share conn and cursor without
\* a lock.  A request is a sequence of steps, one per blocking call (connect,
\* execute, commit, fetchall); steps of different threads interleave.  Each step
\* reads the globals as they are when it runs.

Rec(t) == threads[t].rec

Goto(t, pc, rec) == threads' = [threads EXCEPT ![t] = [pc |-> pc, rec |-> rec]]

\* the request returns: the thread is idle again and the response is recorded
Return(t, rec, response) ==
    /\ threads' = [threads EXCEPT ![t] = Idle]
    /\ resp' = response
    /\ last' = rec
    /\ outcomes' = IF rec.kind = "add"
                   THEN Append(outcomes,
                               [rid |-> rec.rid,
                                reported |-> IF "error" \in response.keys
                                             THEN "error" ELSE "added"])
                   ELSE outcomes

\* lines 129-131 and 156-158: the request arrives and tests "cursor is None"
Begin(t, kind, video_name, comment_text) ==
    LET absent == cursor = "None"
        rec == [NoLast EXCEPT !.kind = kind, !.rid = nreq + 1, !.video = video_name,
                              !.text = comment_text, !.absent = absent,
                              !.connected = ~absent]
    IN  /\ threads[t].pc = "idle"
        /\ nreq' = nreq + 1
        /\ Goto(t, IF absent THEN "connect" ELSE "execute", rec)
        /\ UNCHANGED <<conn, cursor, table, pending, results, clock, reconnects,
                       outcomes, resp, last, uploadVars>>

\* lines 133-135 and 159-161: conn, cursor = create_db_connection() and the second
\* test.  The connection object the globals held before is released, which closes
\* it and rolls its open transaction back.
Reconnect(t, connects) ==
    LET handle == create_db_connection(connects)
        rec == [Rec(t) EXCEPT !.attempts = 1, !.connected = handle[2] # "None"]
    IN  /\ threads[t].pc = "connect"
        /\ conn' = handle[1]
        /\ cursor' = handle[2]
        /\ reconnects' = reconnects + 1
        /\ pending' = {}
        /\ results' = ClosedResults
        /\ UNCHANGED <<table, clock, nreq, uploadVars>>
        /\ IF handle[2] = "None"
           THEN Return(t, rec, IF rec.kind = "add" THEN NotConnectedAdd ELSE NotConnectedGet)
           ELSE Goto(t, "execute", rec) /\ UNCHANGED <<outcomes, resp, last>>

\* lines 138-147: analyze_sentiment, then cursor.execute(INSERT)
AddExecute(t, outcome, raises, keeps, now) ==
    LET sentiment_data == analyze_sentiment(outcome)
        sd == sentiment_data.value
        row == Row(Rec(t).rid, Rec(t).video, Rec(t).text, sd, now)
        rec == [Rec(t) EXCEPT !.outcome = outcome, !.sd = sd]
    IN  /\ threads[t].pc = "execute"
        /\ Rec(t).kind = "add"
        /\ UNCHANGED <<conn, cursor, table, reconnects, nreq, uploadVars>>
        /\ IF sentiment_data.raised # ""
           THEN /\ Return(t, rec, AddCommentExcept(sentiment_data.raised))
                /\ UNCHANGED <<pending, results, clock>>
           ELSE IF cursor = "None"
           THEN /\ Return(t, [rec EXCEPT !.raised = "execute"],
                          AddCommentExcept("AttributeError"))
                /\ UNCHANGED <<pending, results, clock>>
           ELSE IF raises
           THEN /\ Return(t, [rec EXCEPT !.calls = 1, !.raised = "execute", !.row = row],
                          AddCommentExcept("pyodbc.Error"))
                /\ pending' = AfterRaise(pending, keeps)
                /\ results' = ClosedResults
                /\ UNCHANGED clock
           ELSE /\ Goto(t, "commit", [rec EXCEPT !.calls = 1, !.row = row])
                /\ pending' = execute_insert(pending, row)
                /\ results' = ClosedResults
                /\ clock' = now
                /\ UNCHANGED <<outcomes, resp, last>>

\* lines 148-150: conn.commit() and the answer
AddCommit(t, raises, keeps) ==
    /\ threads[t].pc = "commit"
    /\ UNCHANGED <<conn, cursor, results, clock, reconnects, nreq, uploadVars>>
    /\ IF conn = "None"
       THEN /\ Return(t, [Rec(t) EXCEPT !.raised = "commit"],
                      AddCommentExcept("AttributeError"))
            /\ UNCHANGED <<table, pending>>
       ELSE IF raises
       THEN /\ Return(t, [Rec(t) EXCEPT !.calls = 2, !.raised = "commit"],
                      AddCommentExcept("pyodbc.Error"))
            /\ pending' = AfterRaise(pending, keeps)
            /\ UNCHANGED table
       ELSE /\ Return(t, [Rec(t) EXCEPT !.calls = 2], CommentAdded(Rec(t).sd.sentiment))
            /\ table' = commit(table, pending)
            /\ pending' = {}

\* lines 164-169: cursor.execute(SELECT ...); the rows wait on the cursor
GetExecute(t, raises, keeps) ==
    /\ threads[t].pc = "execute"
    /\ Rec(t).kind = "get"
    /\ UNCHANGED <<conn, cursor, table, clock, reconnects, nreq, uploadVars>>
    /\ IF cursor = "None"
       THEN /\ Return(t, [Rec(t) EXCEPT !.raised = "execute"],
                      GetCommentsExcept("AttributeError"))
            /\ UNCHANGED <<pending, results>>
       ELSE IF raises
       THEN /\ Return(t, [Rec(t) EXCEPT !.calls = 1, !.raised = "execute"],
                      GetCommentsExcept("pyodbc.Error"))
            /\ pending' = AfterRaise(pending, keeps)
            /\ results' = ClosedResults
       ELSE \E rows \in OrderedDesc(SelectRows(table, pending, Rec(t).video)) :
            /\ Goto(t, "fetchall",
                    [Rec(t) EXCEPT !.calls = 1,
                                   !.snapshot = SelectRows(table, {}, Rec(t).video)])
            /\ results' = OpenResults(rows)
            /\ UNCHANGED <<pending, outcomes, resp, last>>

\* lines 170-183: cursor.fetchall() returns what the cursor holds now: the rows of
\* the latest SELECT run on it that were not fetched yet; it raises when the
\* latest statement was not a query
GetFetchall(t, raises, keeps) ==
    /\ threads[t].pc = "fetchall"
    /\ UNCHANGED <<conn, cursor, table, clock, reconnects, nreq, uploadVars>>
    /\ IF cursor = "None"
       THEN /\ Return(t, [Rec(t) EXCEPT !.raised = "fetchall"],
                      GetCommentsExcept("AttributeError"))
            /\ UNCHANGED <<pending, results>>
       ELSE IF raises
       THEN /\ Return(t, [Rec(t) EXCEPT !.calls = 2, !.raised = "fetchall"],
                      GetCommentsExcept("pyodbc.Error"))
            /\ pending' = AfterRaise(pending, keeps)
            /\ results' = ClosedResults
       ELSE IF ~results.open
       THEN /\ Return(t, [Rec(t) EXCEPT !.calls = 2, !.raised = "fetchall"],
                      GetCommentsExcept("pyodbc.ProgrammingError"))
            /\ UNCHANGED <<pending, results>>
       ELSE /\ Return(t, [Rec(t) EXCEPT !.calls = 2, !.rows = results.rows],
                      CommentsFound([i \in 1..Len(results.rows) |->
                                        RowToComment(results.rows[i])]))
            /\ results' = OpenResults(<<>>)
            /\ UNCHANGED pending

RaiseKeep == {<<FALSE, TRUE>>, <<TRUE, TRUE>>, <<TRUE, FALSE>>}

BeginRequest ==
    /\ nreq < MaxRequests
    /\ \E t \in Threads, v \in Videos :
          \/ \E c \in Texts : Begin(t, "add", v, c)
          \/ Begin(t, "get", v, "")

StepReconnect == \E t \in Threads, connects \in BOOLEAN : Reconnect(t, connects)

StepAddExecute ==
    \E t \in Threads, outcome \in ClassifierOutcomes, f \in RaiseKeep, now \in Times :
        AddExecute(t, outcome, f[1], f[2], now)

StepAddCommit == \E t \in Threads, f \in RaiseKeep : AddCommit(t, f[1], f[2])

StepGetExecute == \E t \in Threads, f \in RaiseKeep : GetExecute(t, f[1], f[2])

StepGetFetchall == \E t \in Threads, f \in RaiseKeep : GetFetchall(t, f[1], f[2])

NextConc ==
    \/ BeginRequest
    \/ StepReconnect
    \/ StepAddExecute
    \/ StepAddCommit
    \/ StepGetExecute
    \/ StepGetFetchall

SpecConc == Init /\ [][NextConc]_vars

\* ------------------------------------------------ upload-video specifications

\* one upload of any enumerated file name (or of a missing one)
UploadAnyName ==
    /\ uploads = <<>>
    /\ \E f \in Filenames, d \in Payloads, blobRaises \in BOOLEAN, sasRaises \in BOOLEAN :
           upload_video(PyStr(f), d, blobRaises, sasRaises)

UploadNoName ==
    /\ uploads = <<>>
    /\ \E d \in Payloads : upload_video(NoneName, d, FALSE, FALSE)

NextNames == UploadAnyName \/ UploadNoName

SpecNames == InitEmpty /\ [][NextNames]_vars

\* a sequence of uploads of names that collide after normalization
UploadVideo ==
    /\ Len(uploads) < MaxUploads
    /\ \E f \in UploadNames, d \in Payloads, blobRaises \in BOOLEAN, sasRaises \in BOOLEAN :
           upload_video(PyStr(f), d, blobRaises, sasRaises)

NextStorage == UploadVideo

SpecStorage == InitEmpty /\ [][NextStorage]_vars

\* ------------------------------------------------------------------ C1

LastUpload == uploads[Len(uploads)]

\* the file name ends with ".mp4" in any letter case
EndsWithMp4AnyCase(f) ==
    LET n == Len(f)
    IN  /\ n >= 4
        /\ f[n - 3] = "."
        /\ f[n - 2] \in {"m", "M"}
        /\ f[n - 1] \in {"p", "P"}
        /\ f[n] = "4"

\* the first k characters of f are the text before its last '.', or all of f when
\* f has no '.'
IsBase(f, k) ==
    \/ k = Len(f) /\ \A j \in 1..Len(f) : f[j] # "."
    \/ k < Len(f) /\ f[k + 1] = "." /\ \A j \in (k + 2)..Len(f) : f[j] # "."

\* C1: a served upload of file name f stores and returns f unchanged when f ends
\* with ".mp4" in any letter case, and otherwise <base>.mp4 with <base> the text
\* of f before its last '.' (all of f without a '.'); the blob written, the name
\* signed into the URL and the returned video_name are one string.
C1_NameNormalization ==
    (uploads # <<>> /\ LastUpload.status = 200) =>
        LET f == LastUpload.file[2]
            name == upResp.video_name
        IN  /\ EndsWithMp4AnyCase(f) => name = f
            /\ ~EndsWithMp4AnyCase(f) =>
                 \E k \in 0..Len(f) :
                    IsBase(f, k) /\ name = SubSeq(f, 1, k) \o <<".", "m", "p", "4">>
            /\ \E b \in storage : b.name = name /\ b.data = LastUpload.data
            /\ upResp.video_url.blob = name
            /\ upResp.video_url.signed = name

\* an upload of a.Mp4 was served and kept its name
C1_Witness ==
    /\ uploads # <<>>
    /\ LastUpload.status = 200
    /\ LastUpload.file[2] = <<"a", ".", "M", "p", "4">>
    /\ upResp.video_name = <<"a", ".", "M", "p", "4">>

\* ------------------------------------------------------------------ C7

AllUploadsServed == \A i \in 1..Len(uploads) : uploads[i].status = 200

\* C7: after a sequence of served uploads, storage holds one object per returned
\* name, its content the payload of the latest upload that returned the name; and
\* an upload repeating the previous file name and payload leaves storage as it was.
C7_OverwriteByName ==
    AllUploadsServed =>
        /\ \A b1, b2 \in storage : b1.name = b2.name => b1 = b2
        /\ \A i \in 1..Len(uploads) : \E b \in storage : b.name = uploads[i].video_name
        /\ \A b \in storage :
              \E i \in 1..Len(uploads) :
                 /\ uploads[i].video_name = b.name
                 /\ uploads[i].data = b.data
                 /\ \A j \in (i + 1)..Len(uploads) : uploads[j].video_name # b.name
        /\ ( /\ Len(uploads) >= 2
             /\ uploads[Len(uploads) - 1].file = LastUpload.file
             /\ uploads[Len(uploads) - 1].data = LastUpload.data )
           => storage = storageBefore

\* two served uploads of different file names and payloads gave the same name
C7_Witness ==
    /\ AllUploadsServed
    /\ Len(uploads) >= 2
    /\ uploads[1].file # uploads[2].file
    /\ uploads[1].video_name = uploads[2].video_name
    /\ uploads[1].data # uploads[2].data

\* ------------------------------------------------------------------ C2

\* C2: whatever the classifier call does, analyze_sentiment returns a record of
\* exactly the keys sentiment, positive, neutral, negative: the classifier's label
\* and scores when the call succeeded, and ("unknown", 0, 0, 0) when it failed in
\* any way.
C2_ClassifyNeverRaises ==
    (last.kind = "add" /\ last.outcome.kind # "not called") =>
        /\ DOMAIN last.sd = {"sentiment", "positive", "neutral", "negative"}
        /\ last.outcome.kind = "ok" => last.sd = last.outcome.result
        /\ last.outcome.kind # "ok" =>
              last.sd = [sentiment |-> <<"str", "unknown">>, positive |-> <<"int", 0>>,
                         neutral |-> <<"int", 0>>, negative |-> <<"int", 0>>]

\* the classifier returned an empty list and the adapter answered "unknown"
C2_Witness ==
    /\ last.kind = "add"
    /\ last.outcome.kind = "IndexError"
    /\ last.sd.sentiment = <<"str", "unknown">>

\* ------------------------------------------------------------------ C3

RowsOf(rid) == {r \in table : r.rid = rid}

\* C3: an add-comment request that reached the store, whose classifier failed and
\* whose insert and commit succeeded, leaves exactly one committed row (video_name,
\* comment_text, "unknown", 0, 0, 0) and answers {status: "Comment added",
\* sentiment: "unknown"}.
C3_ClassifierFailureStillInserts ==
    ( /\ last.kind = "add"
      /\ last.outcome.kind \notin {"ok", "not called"}
      /\ last.raised = "" ) =>
        /\ Cardinality(RowsOf(last.rid)) = 1
        /\ \A r \in RowsOf(last.rid) :
              /\ r.video = last.video
              /\ r.text = last.text
              /\ r.sentiment = <<"str", "unknown">>
              /\ r.positive[2] = 0 /\ r.neutral[2] = 0 /\ r.negative[2] = 0
              /\ r \notin pending
        /\ resp.keys = {"status", "sentiment"}
        /\ resp.status = "Comment added"
        /\ resp.sentiment = <<"str", "unknown">>
        /\ resp.http = 200

\* the classifier raised, and the comment was stored
C3_Witness ==
    /\ last.kind = "add"
    /\ last.outcome.kind = "HttpResponseError"
    /\ last.raised = ""
    /\ RowsOf(last.rid) # {}
    /\ resp.status = "Comment added"

\* ------------------------------------------------------------------ C4

\* the last request found the store unreachable: the handle was absent and the
\* reconnect failed, or a call on the handle raised
StoreUnreachable ==
    \/ last.absent /\ last.attempts > 0 /\ last.calls = 0 /\ last.outcome.kind = "not called"
    \/ last.raised # ""

\* C4: every comment request is answered with status 200, and one that found the
\* store unreachable is answered with an "error" field (add-comment), or with
\* {comments: [], error} (get-comments).
C4_StoreFailuresReported ==
    last.kind # "none" =>
        /\ resp.http = 200
        /\ StoreUnreachable =>
              /\ last.kind = "add" => "error" \in resp.keys /\ resp.error # ""
              /\ last.kind = "get" =>
                    /\ resp.keys = {"comments", "error"}
                    /\ resp.comments = <<>>
                    /\ resp.error # ""

\* get-comments ran its query on a present handle and the query raised
C4_Witness ==
    /\ last.kind = "get"
    /\ ~last.absent
    /\ last.raised = "execute"
    /\ resp.keys = {"comments", "error"}

\* ------------------------------------------------------------------ C5

\* C5: every finished add-comment request either reported success and has exactly
\* one committed row, or reported an error and has none, now and later.
C5_AllOrNothing ==
    \A i \in 1..Len(outcomes) :
        /\ outcomes[i].reported = "added" => Cardinality(RowsOf(outcomes[i].rid)) = 1
        /\ outcomes[i].reported = "error" => RowsOf(outcomes[i].rid) = {}

\* ------------------------------------------------------------------ C6

\* the last request was a get-comments that was answered without an error
Listed == last.kind = "get" /\ "error" \notin resp.keys /\ resp.http = 200

\* C6: with requests served one at a time, a get-comments(V) answered by the store
\* returns exactly the committed rows of V, newest first; {comments: []} when
\* there are none.
C6_ListsCommittedNewestFirst ==
    Listed =>
        /\ resp.keys = {"comments"}
        /\ Len(resp.comments) = Len(last.rows)
        /\ {last.rows[i] : i \in 1..Len(last.rows)} = {r \in table : r.video = last.video}
        /\ Cardinality({r \in table : r.video = last.video}) = Len(last.rows)
        /\ \A i, j \in 1..Len(last.rows) :
              i < j => last.rows[i].created_at >= last.rows[j].created_at
        /\ \A i \in 1..Len(last.rows) : resp.comments[i].text = last.rows[i].text

\* ------------------------------------------------------------------ C8

ScoreSurfaces(stored, shown) ==
    /\ shown[1] = "float"
    /\ stored[1] = "none" => shown[2] = 0
    /\ stored[1] # "none" => shown[2] = stored[2]

\* C8: in a get-comments answer, a NULL stored label is shown as "neutral" and a
\* non-empty one unchanged; a NULL score is shown as 0.0 and any other score with
\* its stored value.
C8_ReadSideDefaults ==
    Listed =>
        /\ Len(resp.comments) = Len(last.rows)
        /\ \A i \in 1..Len(last.rows) :
              LET r == last.rows[i]
                  c == resp.comments[i]
              IN  /\ r.sentiment[1] = "none" => c.sentiment = <<"str", "neutral">>
                  /\ (r.sentiment[1] = "str" /\ r.sentiment[2] # "") =>
                        c.sentiment = r.sentiment
                  /\ ScoreSurfaces(r.positive, c.positive)
                  /\ ScoreSurfaces(r.neutral, c.neutral)
                  /\ ScoreSurfaces(r.negative, c.negative)

\* an answer showed a row with NULL label and scores, and a row labelled "unknown"
C8_Witness ==
    /\ Listed
    /\ \E i \in 1..Len(last.rows) :
          /\ last.rows[i].sentiment[1] = "none"
          /\ last.rows[i].positive[1] = "none"
          /\ resp.comments[i].sentiment = <<"str", "neutral">>
    /\ \E i \in 1..Len(last.rows) :
          /\ last.rows[i].sentiment = <<"str", "unknown">>
          /\ resp.comments[i].sentiment = <<"str", "unknown">>

\* ------------------------------------------------------------------ C9

\* C9: under concurrent requests on the shared cursor, a get-comments(V) answered
\* by the store returns rows of V only, and every row of V committed before its
\* query ran.
C9_SharedCursorSafe ==
    Listed =>
        /\ \A i \in 1..Len(last.rows) : last.rows[i].video = last.video
        /\ last.snapshot \subseteq {last.rows[i] : i \in 1..Len(last.rows)}

\* ------------------------------------------------------------------ C10

\* what the last finished request did about the handle
OneReconnectWhenAbsent ==
    last.kind # "none" =>
        /\ last.attempts = (IF last.absent THEN 1 ELSE 0)
        /\ (last.absent /\ ~last.connected) =>
              /\ resp.error = "SQL Database not connected."
              /\ last.outcome.kind = "not called"
              /\ last.calls = 0
        /\ (last.absent /\ last.connected) =>
              last.outcome.kind # "not called" \/ last.calls > 0

\* C10: conn and cursor are absent together or present together; a request that
\* finds the handle absent makes one reconnect attempt, answers "SQL Database not
\* connected." without touching classifier or store when it fails, and goes on
\* when it succeeds; a present handle is never made absent again and no reconnect
\* is attempted while it is present.
C10_HandleLifecycle ==
    [][ /\ (conn = "None") = (cursor = "None")
        /\ (conn' = "None") = (cursor' = "None")
        /\ OneReconnectWhenAbsent'
        /\ cursor # "None" => (cursor' # "None" /\ reconnects' = reconnects) ]_vars

====
